---- MODULE Spec2Model ----
(***************************************************************************)
(* A model of vm/src/anystr.rs (RustPython): the generic helpers shared by *)
(* str and bytes.  Every helper is a pure function of its arguments, so    *)
(* each one is an operator computed the way the Rust code computes it, and *)
(* the state machine is "a caller invokes one helper with some arguments": *)
(* op names the helper last invoked, args its arguments, ret its result    *)
(* and calls the log of the callbacks (closures, iterator pulls, sub-view  *)
(* accessors) the helper invoked, in order.                                *)
(***************************************************************************)
EXTENDS Integers, Sequences, FiniteSets, TLC

VARIABLES op, args, ret, calls

vars == <<op, args, ret, calls>>

(***************************************************************************)
(* Bounds of the model.                                                    *)
(***************************************************************************)
\* isize::MAX of the modelled machine (2^63 - 1 on the real one).
ISIZE_MAX == 7
\* How far beyond the machine range the big integers of the model reach.
BigExtra == 2
\* Longest subject sequence.
MaxLen == 4
\* Largest pad width.
MaxWidth == 7
\* Most items an iterator handed to py_join yields.
MaxItems == 3
\* Most nodes (values and tuples) of an affix object.
MaxNodes == 4

ISIZE_MIN == -ISIZE_MAX - 1
USIZE_MOD == 2 * (ISIZE_MAX + 1)

(***************************************************************************)
(* Option<T>: None is the empty sequence, Some(x) the one-element one.     *)
(***************************************************************************)
None == <<>>
Some(x) == <<x>>
IsSome(o) == Len(o) = 1
Unwrap(o) == o[1]

Max(a, b) == IF a >= b THEN a ELSE b
Min(a, b) == IF a <= b THEN a ELSE b

\* The sequences over alphabet A of length at most n.
SeqsUpTo(A, n) == UNION {[1..k -> A] : k \in 0..n}

(***************************************************************************)
(* Machine integers.                                                       *)
(***************************************************************************)
\* A two's complement result reduced to the isize range (a wrapping result).
wrap_isize(x) == ((x - ISIZE_MIN) % USIZE_MOD) + ISIZE_MIN
\* `x as isize` for a usize x.
as_isize(x) == wrap_isize(x)
\* `x as usize` for an isize x.
as_usize(x) == x % USIZE_MOD

\* The arbitrary-precision integers a caller may pass as an index.
BigInts == (ISIZE_MIN - BigExtra)..(ISIZE_MAX + BigExtra)
OptBigInts == {None} \cup {Some(b) : b \in BigInts}

saturate_to_isize(big) ==
    IF big >= ISIZE_MIN /\ big <= ISIZE_MAX
    THEN big
    ELSE IF big < 0 THEN ISIZE_MIN ELSE ISIZE_MAX

Range(s, e) == [start |-> s, end |-> e]

adjust_indices_clamped(start, end, len) ==
    LET e0 == IF IsSome(end) THEN saturate_to_isize(Unwrap(end)) ELSE as_isize(len)
        e1 == IF e0 > as_isize(len) THEN as_isize(len)
              ELSE IF e0 < 0 THEN Max(0, wrap_isize(e0 + as_isize(len)))
              ELSE e0
        s0 == IF IsSome(start) THEN saturate_to_isize(Unwrap(start)) ELSE 0
        s1 == IF s0 > as_isize(len) THEN as_isize(len)
              ELSE IF s0 < 0 THEN Max(0, wrap_isize(s0 + as_isize(len)))
              ELSE s0
    IN  Range(as_usize(s1), as_usize(e1))

adjust_indices_unclamped_end(start, end, len) ==
    LET e0 == IF IsSome(end) THEN saturate_to_isize(Unwrap(end)) ELSE as_isize(len)
        e1 == IF e0 < 0 THEN Max(0, wrap_isize(e0 + as_isize(len))) ELSE e0
        s0 == IF IsSome(start) THEN saturate_to_isize(Unwrap(start)) ELSE 0
        s1 == IF s0 < 0 THEN Max(0, wrap_isize(s0 + as_isize(len))) ELSE s0
    IN  Range(as_usize(s1), as_usize(e1))

adjust_indices(start, end, len) ==
    LET s0 == IF IsSome(start) THEN saturate_to_isize(Unwrap(start)) ELSE 0
        e0 == IF IsSome(end) THEN saturate_to_isize(Unwrap(end)) ELSE as_isize(len)
        e1 == IF e0 > as_isize(len)
              THEN as_isize(len)
              ELSE IF e0 < 0
                   THEN LET e2 == wrap_isize(e0 + as_isize(len))
                        IN  IF e2 < 0 THEN 0 ELSE e2
                   ELSE e0
        s1 == IF s0 < 0
              THEN LET s2 == wrap_isize(s0 + as_isize(len))
                   IN  IF s2 < 0 THEN 0 ELSE s2
              ELSE s0
    IN  Range(as_usize(s1), as_usize(e1))

is_normal(range) == range.start <= range.end

(***************************************************************************)
(* Sequences: a str or bytes subject is the sequence of its elements, each *)
(* a byte value.                                                           *)
(***************************************************************************)
LF == 10
CR == 13
Letters == {97, 98}
Subjects == SeqsUpTo(Letters, MaxLen)

\* What a helper yields when the Rust code panics (an out-of-range slice, an
\* arithmetic overflow in a build with overflow checks).
Panic == <<-1>>

\* self.bytes_len()
bytes_len(s) == Len(s)

\* self.get_bytes(range), &s[range]: a slice whose range is not inside the
\* sequence panics.
get_bytes(s, range) ==
    IF range.start <= range.end /\ range.end <= Len(s)
    THEN SubSeq(s, range.start + 1, range.end)
    ELSE Panic

\* self.get_chars(range): the element-range view (the byte range for bytes).
get_chars(s, range) == get_bytes(s, range)

\* The predicate callers hand to py_removeprefix: s starts with prefix.
is_prefix(s, prefix) ==
    /\ Len(prefix) <= Len(s)
    /\ SubSeq(s, 1, Len(prefix)) = prefix

RECURSIVE py_removeprefix_all(_, _, _)
py_removeprefix_all(s, prefix, prefix_len) ==
    IF is_prefix(s, prefix) /\ prefix_len > 0
    THEN py_removeprefix_all(get_bytes(s, Range(prefix_len, bytes_len(s))), prefix, prefix_len)
    ELSE s

py_removeprefix(s, prefix, prefix_len) ==
    IF is_prefix(s, prefix)
    THEN get_bytes(s, Range(prefix_len, bytes_len(s)))
    ELSE s

\* The while loop of py_bytes_splitlines: i is the index the enumerated
\* iterator yields next, keep is `options.keepends as usize`.
RECURSIVE splitlines_scan(_, _, _, _, _)
splitlines_scan(s, keep, i, last_i, elements) ==
    IF i >= Len(s)
    THEN [last_i |-> last_i, elements |-> elements]
    ELSE LET ch == s[i + 1]
             \* enumerated.next_if(|(_, ch)| **ch == b'\n').is_some()
             is_rn == i + 1 < Len(s) /\ s[i + 2] = LF
             end_len == IF ch = CR /\ is_rn THEN keep + keep ELSE keep
             i_diff == IF ch = CR /\ is_rn THEN 2 ELSE 1
         IN  IF ch = LF \/ ch = CR
             THEN splitlines_scan(s, keep, i + i_diff, i + i_diff,
                      Append(elements, get_bytes(s, Range(last_i, i + end_len))))
             ELSE splitlines_scan(s, keep, i + 1, last_i, elements)

\* The same loop without the peek for \n after \r.
RECURSIVE splitlines_scan_nopeek(_, _, _, _, _)
splitlines_scan_nopeek(s, keep, i, last_i, elements) ==
    IF i >= Len(s)
    THEN [last_i |-> last_i, elements |-> elements]
    ELSE IF s[i + 1] = LF \/ s[i + 1] = CR
         THEN splitlines_scan_nopeek(s, keep, i + 1, i + 1,
                  Append(elements, get_bytes(s, Range(last_i, i + keep))))
         ELSE splitlines_scan_nopeek(s, keep, i + 1, last_i, elements)

py_bytes_splitlines_nopeek(s, keepends) ==
    LET scan == splitlines_scan_nopeek(s, IF keepends THEN 1 ELSE 0, 0, 0, <<>>)
    IN  IF scan.last_i # bytes_len(s)
        THEN Append(scan.elements, get_bytes(s, Range(scan.last_i, bytes_len(s))))
        ELSE scan.elements

py_bytes_splitlines(s, keepends) ==
    LET keep == IF keepends THEN 1 ELSE 0
        scan == splitlines_scan(s, keep, 0, 0, <<>>)
    IN  IF scan.last_i # bytes_len(s)
        THEN Append(scan.elements, get_bytes(s, Range(scan.last_i, bytes_len(s))))
        ELSE scan.elements

\* The byte sequences handed to splitlines.
LineBytes == {LF, CR, 97}
LineSubjects == SeqsUpTo(LineBytes, MaxLen)

(***************************************************************************)
(* Padding.                                                                *)
(***************************************************************************)
\* std::iter::repeat(fillchar).take(n)
Repeat(c, n) == [i \in 1..n |-> c]

\* The bitwise and of two usize values.
RECURSIVE BitAnd(_, _)
BitAnd(a, b) ==
    IF a = 0 \/ b = 0
    THEN 0
    ELSE (a % 2) * (b % 2) + 2 * BitAnd(a \div 2, b \div 2)

py_pad(s, left, right, fillchar) ==
    Repeat(fillchar, left) \o s \o Repeat(fillchar, right)

\* Centering that gives the odd unit of margin to the left whatever the width.
py_center_roundup(s, width, fillchar, len) ==
    LET marg == width - len
        left == marg \div 2 + BitAnd(marg, 1)
    IN  py_pad(s, left, marg - left, fillchar)

py_center(s, width, fillchar, len) ==
    LET marg == width - len
        left == marg \div 2 + BitAnd(BitAnd(marg, width), 1)
    IN  py_pad(s, left, marg - left, fillchar)

py_ljust(s, width, fillchar, len) == py_pad(s, 0, width - len, fillchar)

py_rjust(s, width, fillchar, len) == py_pad(s, width - len, 0, fillchar)

FillChars == {32, 48}

(***************************************************************************)
(* PyResult<T>: Ok(v) or Err(e).                                           *)
(***************************************************************************)
Ok(v) == [ok |-> TRUE, val |-> v, err |-> <<>>]
Err(e) == [ok |-> FALSE, val |-> <<>>, err |-> e]

(***************************************************************************)
(* Join.  The iterator is the sequence of the items it yields, each Ok(x)  *)
(* or Err(e); pulled counts the items taken from it.                       *)
(***************************************************************************)
RECURSIVE join_loop(_, _, _, _)
join_loop(sep, items, k, joined) ==
    IF k > Len(items)
    THEN [ret |-> Ok(joined), pulled |-> Len(items)]
    ELSE IF ~items[k].ok
         THEN [ret |-> Err(items[k].err), pulled |-> k]
         ELSE join_loop(sep, items, k + 1, (joined \o sep) \o items[k].val)

\* A join that puts the separator before every item, the first included.
py_join_leading(sep, items) ==
    join_loop(sep, items, 1, <<>>)

py_join(sep, items) ==
    IF Len(items) = 0
    THEN [ret |-> Ok(<<>>), pulled |-> 0]
    ELSE IF ~items[1].ok
         THEN [ret |-> Err(items[1].err), pulled |-> 1]
         ELSE join_loop(sep, items, 2, items[1].val)

JoinItems == {Ok(<<>>), Ok(<<97>>), Ok(<<98, 97>>), Err(<<"E1">>), Err(<<"E2">>)}
JoinSeps == {<<>>, <<44>>}

(***************************************************************************)
(* The search and split closures callers supply.                           *)
(***************************************************************************)
\* The find closure: the index of the first occurrence of needle in hay.
find(hay, needle) ==
    LET hits == {i \in 0..(Len(hay) - Len(needle)) :
                    SubSeq(hay, i + 1, i + Len(needle)) = needle}
    IN  IF hits = {}
        THEN None
        ELSE Some(CHOOSE i \in hits : \A j \in hits : i <= j)

\* The count closure: the number of non-overlapping occurrences.
RECURSIVE count(_, _)
count(hay, needle) ==
    IF needle = <<>>
    THEN Len(hay) + 1
    ELSE LET f == find(hay, needle)
         IN  IF IsSome(f)
             THEN 1 + count(SubSeq(hay, Unwrap(f) + Len(needle) + 1, Len(hay)), needle)
             ELSE 0

\* The splitn closure: at most n fragments, the last one holding the rest.
RECURSIVE splitn(_, _, _)
splitn(s, sep, n) ==
    IF n = 0
    THEN <<>>
    ELSE LET f == find(s, sep)
         IN  IF n = 1 \/ ~IsSome(f)
             THEN <<s>>
             ELSE <<SubSeq(s, 1, Unwrap(f))>>
                  \o splitn(SubSeq(s, Unwrap(f) + Len(sep) + 1, Len(s)), sep, n - 1)

\* The split closure: every fragment.
split(s, sep) == splitn(s, sep, Len(s) + 2)

Space == 32

\* s without its leading whitespace.
RECURSIVE skip_whitespace(_)
skip_whitespace(s) ==
    IF s # <<>> /\ Head(s) = Space THEN skip_whitespace(Tail(s)) ELSE s

\* The whitespace splitter: the runs of non-whitespace, at most maxsplit
\* splits when maxsplit >= 0, the rest (leading whitespace dropped) last.
RECURSIVE splitw(_, _)
splitw(s, maxsplit) ==
    LET rest == skip_whitespace(s)
        f == find(rest, <<Space>>)
    IN  IF rest = <<>>
        THEN <<>>
        ELSE IF maxsplit = 0 \/ ~IsSome(f)
             THEN <<rest>>
             ELSE <<SubSeq(rest, 1, Unwrap(f))>>
                  \o splitw(SubSeq(rest, Unwrap(f) + 2, Len(rest)),
                            IF maxsplit < 0 THEN maxsplit ELSE maxsplit - 1)

(***************************************************************************)
(* Split.                                                                  *)
(***************************************************************************)
SplitArgs_get_value(sep, maxsplit) ==
    IF IsSome(sep) /\ Unwrap(sep) = <<>>
    THEN Err(<<"ValueError", "empty separator">>)
    ELSE Ok([sep |-> sep, maxsplit |-> maxsplit])

Call(fn, n) == [fn |-> fn, n |-> n]

\* overflow_checks: whether the build panics on integer overflow (a debug
\* build, or overflow-checks = true) or wraps (a release build).
py_split(s, sep, maxsplit, overflow_checks) ==
    LET v == SplitArgs_get_value(sep, maxsplit)
    IN  IF ~v.ok
        THEN [ret |-> Err(v.err), calls |-> <<>>]
        ELSE IF IsSome(sep)
             THEN IF maxsplit < 0
                  THEN [ret |-> Ok(split(s, Unwrap(sep))), calls |-> <<Call("split", 0)>>]
                  ELSE IF maxsplit + 1 > ISIZE_MAX /\ overflow_checks
                       THEN [ret |-> Err(<<"panic", "attempt to add with overflow">>),
                             calls |-> <<>>]
                       ELSE LET n == as_usize(wrap_isize(maxsplit + 1))
                            IN  [ret |-> Ok(splitn(s, Unwrap(sep), n)),
                                 calls |-> <<Call("splitn", n)>>]
             ELSE [ret |-> Ok(splitw(s, maxsplit)), calls |-> <<Call("splitw", maxsplit)>>]

SplitSubjects == SeqsUpTo({97, 44, Space}, MaxLen - 1)
SplitSeps == {None, Some(<<>>), Some(<<44>>), Some(<<44, 44>>)}

(***************************************************************************)
(* Find and count.                                                         *)
(***************************************************************************)
SubCall(fn, a, b) == [fn |-> fn, a |-> a, b |-> b]

\* A find that returns the index in the sub-view.
py_find_relative(s, needle, range) ==
    IF is_normal(range)
    THEN LET sub == get_chars(s, range)
             index == find(sub, needle)
         IN  [ret |-> IF sub = Panic THEN Panic ELSE index,
              calls |-> IF sub = Panic
                        THEN <<SubCall("get_chars", range.start, range.end)>>
                        ELSE <<SubCall("get_chars", range.start, range.end),
                               SubCall("find", sub, needle)>>]
    ELSE [ret |-> None, calls |-> <<>>]

py_find(s, needle, range) ==
    IF is_normal(range)
    THEN LET start == range.start
             sub == get_chars(s, range)
             index == find(sub, needle)
         IN  IF sub = Panic
             THEN [ret |-> Panic,
                   calls |-> <<SubCall("get_chars", range.start, range.end)>>]
             ELSE [ret |-> IF IsSome(index) THEN Some(start + Unwrap(index)) ELSE None,
                   calls |-> <<SubCall("get_chars", range.start, range.end),
                               SubCall("find", sub, needle)>>]
    ELSE [ret |-> None, calls |-> <<>>]

py_count(s, needle, range) ==
    IF is_normal(range)
    THEN LET sub == get_chars(s, range)
         IN  IF sub = Panic
             THEN [ret |-> Panic,
                   calls |-> <<SubCall("get_chars", range.start, range.end)>>]
             ELSE [ret |-> Some(count(sub, needle)),
                   calls |-> <<SubCall("get_chars", range.start, range.end),
                               SubCall("count", sub, needle)>>]
    ELSE [ret |-> Some(0), calls |-> <<>>]

Needles == {<<>>, <<97>>, <<97, 98>>}

\* The indices callers pass with a subject: around its length, and beyond
\* the machine range on both sides.
IdxInts == (-(MaxLen + 1))..(MaxLen + 1)
             \cup {ISIZE_MIN - BigExtra, ISIZE_MAX + BigExtra}
OptIdxInts == {None} \cup {Some(b) : b \in IdxInts}

(***************************************************************************)
(* StartsEndsWithArgs.                                                     *)
(***************************************************************************)
StartsEndsWithArgs_get_value(affix, start, end, len) ==
    [affix |-> affix,
     range |-> IF IsSome(start) \/ IsSome(end)
               THEN Some(adjust_indices(start, end, len))
               ELSE None]

\* substr is the sub-view closure, get_chars (get_bytes for bytes).
prepare(affix, start, end, s, len) ==
    LET v == StartsEndsWithArgs_get_value(affix, start, end, len)
    IN  IF IsSome(v.range)
        THEN LET range == Unwrap(v.range)
             IN  IF ~is_normal(range)
                 THEN [ret |-> None,
                       calls |-> <<SubCall("adjust_indices", range.start, range.end)>>]
                 ELSE [ret |-> Some([affix |-> v.affix, substr |-> get_chars(s, range)]),
                       calls |-> <<SubCall("adjust_indices", range.start, range.end),
                                   SubCall("substr", range.start, range.end)>>]
        ELSE [ret |-> Some([affix |-> v.affix, substr |-> s]), calls |-> <<>>]

Affixes == {<<97>>, <<98, 97>>}

(***************************************************************************)
(* Objects: a value of the expected type T (kind "T"; tag is what the      *)
(* predicate yields on it: 0 false, 1 true, 2 an error), a value of some   *)
(* other class that is no tuple, or a tuple of objects.                    *)
(***************************************************************************)
TValue(tag) == [kind |-> "T", tag |-> tag, items |-> <<>>]
Other(class) == [kind |-> class, tag |-> 0, items |-> <<>>]
Tuple(items) == [kind |-> "tuple", tag |-> 0, items |-> items]

\* The objects of exactly n nodes over the given leaves, and the sequences
\* of objects of m nodes in all.
RECURSIVE ObjectsOfSize(_, _), ForestsOfSize(_, _)
ObjectsOfSize(leaves, n) ==
    (IF n = 1 THEN leaves ELSE {}) \cup {Tuple(f) : f \in ForestsOfSize(leaves, n - 1)}
ForestsOfSize(leaves, m) ==
    IF m = 0
    THEN {<<>>}
    ELSE UNION {{<<o>> \o f : o \in ObjectsOfSize(leaves, k),
                              f \in ForestsOfSize(leaves, m - k)} : k \in 1..m}

Objects(leaves) == UNION {ObjectsOfSize(leaves, n) : n \in 1..MaxNodes}

\* obj.try_to_value::<T>(vm) succeeds.
is_T(obj) == obj.kind = "T"
\* obj.try_to_value::<&Py<PyTuple>>(vm) succeeds.
is_tuple(obj) == obj.kind = "tuple"
\* obj.class()
class(obj) == obj.kind

\* (predicate)(single) for the predicate handed to single_or_tuple_any.
predicate(single) ==
    IF single.tag = 2
    THEN Err(<<"PredicateError", single>>)
    ELSE Ok(single.tag = 1)

\* vm.new_type_error((message)(obj)): the message is the builder's, applied
\* to obj.
new_type_error(obj) == Err(<<"TypeError", obj>>)

ObjCall(fn, obj) == [fn |-> fn, obj |-> obj]

\* The dispatcher without the early return on a match: every element of a
\* tuple is examined.
RECURSIVE single_or_tuple_any_eager(_), tuple_loop_eager(_, _, _, _)
single_or_tuple_any_eager(obj) ==
    IF is_T(obj)
    THEN [ret |-> predicate(obj), calls |-> <<ObjCall("predicate", obj)>>]
    ELSE IF ~is_tuple(obj)
         THEN [ret |-> new_type_error(obj), calls |-> <<ObjCall("message", obj)>>]
         ELSE tuple_loop_eager(obj.items, 1, <<>>, FALSE)
tuple_loop_eager(items, i, log, any) ==
    IF i > Len(items)
    THEN [ret |-> Ok(any), calls |-> log]
    ELSE LET r == single_or_tuple_any_eager(items[i])
         IN  IF ~r.ret.ok
             THEN [ret |-> r.ret, calls |-> log \o r.calls]
             ELSE tuple_loop_eager(items, i + 1, log \o r.calls, any \/ r.ret.val)

\* single_or_tuple_any and its `for obj in tuple` loop, from element i on;
\* log holds the predicate and message calls made so far.
RECURSIVE single_or_tuple_any(_), tuple_loop(_, _, _)
single_or_tuple_any(obj) ==
    IF is_T(obj)
    THEN [ret |-> predicate(obj), calls |-> <<ObjCall("predicate", obj)>>]
    ELSE IF ~is_tuple(obj)
         THEN [ret |-> new_type_error(obj), calls |-> <<ObjCall("message", obj)>>]
         ELSE tuple_loop(obj.items, 1, <<>>)
tuple_loop(items, i, log) ==
    IF i > Len(items)
    THEN [ret |-> Ok(FALSE), calls |-> log]
    ELSE LET r == single_or_tuple_any(items[i])
         IN  IF ~r.ret.ok
             THEN [ret |-> r.ret, calls |-> log \o r.calls]
             ELSE IF r.ret.val
                  THEN [ret |-> Ok(TRUE), calls |-> log \o r.calls]
                  ELSE tuple_loop(items, i + 1, log \o r.calls)

\* The message closure of py_startsendswith.
startsendswith_message(func_name, py_type_name, o) ==
    <<func_name, " first arg must be ", py_type_name, " or a tuple of ",
      py_type_name, ", not ", class(o)>>

\* A py_startsendswith whose message names the class of the whole affix.
py_startsendswith_outer(affix, func_name, py_type_name) ==
    LET r == single_or_tuple_any(affix)
    IN  IF ~r.ret.ok /\ r.ret.err[1] = "TypeError"
        THEN [ret |-> Err(<<"TypeError",
                            startsendswith_message(func_name, py_type_name, affix)>>),
              calls |-> r.calls]
        ELSE r

\* The predicate is |s| Ok(func(self, s)): func's answer on s is s.tag = 1.
py_startsendswith(affix, func_name, py_type_name) ==
    LET r == single_or_tuple_any(affix)
    IN  IF ~r.ret.ok /\ r.ret.err[1] = "TypeError"
        THEN [ret |-> Err(<<"TypeError",
                            startsendswith_message(func_name, py_type_name,
                                                   r.ret.err[2])>>),
              calls |-> r.calls]
        ELSE r

\* The values handed to single_or_tuple_any, and the affixes handed to
\* py_startsendswith (whose predicate never fails).
AnyLeaves == {TValue(0), TValue(1), TValue(2), Other("int")}
AffixLeaves == {TValue(0), TValue(1), Other("int"), Other("NoneType")}
FuncNames == {<<"startswith", "str">>, <<"endswith", "bytes">>}

(***************************************************************************)
(* The state machine.                                                      *)
(***************************************************************************)
Init ==
    /\ op = "idle"
    /\ args = <<>>
    /\ ret = <<>>
    /\ calls = <<>>

\* adjust_indices(start, end, len) for a length a sequence can have.
CallAdjustIndices ==
    /\ op = "idle"
    /\ \E len \in 0..ISIZE_MAX, start \in OptBigInts, end \in OptBigInts :
        /\ op' = "adjust_indices"
        /\ args' = [start |-> start, end |-> end, len |-> len]
        /\ ret' = adjust_indices(start, end, len)
        /\ calls' = <<>>

\* s.removeprefix(prefix): py_removeprefix with the starts-with predicate and
\* the prefix's byte length.
CallRemovePrefix ==
    /\ op = "idle"
    /\ \E s \in Subjects, prefix \in Subjects :
        /\ op' = "py_removeprefix"
        /\ args' = [s |-> s, prefix |-> prefix]
        /\ ret' = py_removeprefix(s, prefix, bytes_len(prefix))
        /\ calls' = <<>>

\* The caller removes the same prefix from the result of the first call.
CallRemovePrefixAgain ==
    /\ op = "py_removeprefix"
    /\ op' = "py_removeprefix_again"
    /\ args' = [s |-> ret, prefix |-> args.prefix, original |-> args.s]
    /\ ret' = py_removeprefix(ret, args.prefix, bytes_len(args.prefix))
    /\ calls' = <<>>

CallBytesSplitlines ==
    /\ op = "idle"
    /\ \E s \in LineSubjects, keepends \in BOOLEAN :
        /\ op' = "py_bytes_splitlines"
        /\ args' = [s |-> s, keepends |-> keepends]
        /\ ret' = py_bytes_splitlines(s, keepends)
        /\ calls' = <<>>

CallCenter ==
    /\ op = "idle"
    /\ \E s \in Subjects, fillchar \in FillChars :
        \E width \in Len(s)..MaxWidth :
            /\ op' = "py_center"
            /\ args' = [s |-> s, width |-> width, fillchar |-> fillchar, len |-> Len(s)]
            /\ ret' = py_center(s, width, fillchar, Len(s))
            /\ calls' = <<>>

CallLjust ==
    /\ op = "idle"
    /\ \E s \in Subjects, fillchar \in FillChars :
        \E width \in Len(s)..MaxWidth :
            /\ op' = "py_ljust"
            /\ args' = [s |-> s, width |-> width, fillchar |-> fillchar, len |-> Len(s)]
            /\ ret' = py_ljust(s, width, fillchar, Len(s))
            /\ calls' = <<>>

CallRjust ==
    /\ op = "idle"
    /\ \E s \in Subjects, fillchar \in FillChars :
        \E width \in Len(s)..MaxWidth :
            /\ op' = "py_rjust"
            /\ args' = [s |-> s, width |-> width, fillchar |-> fillchar, len |-> Len(s)]
            /\ ret' = py_rjust(s, width, fillchar, Len(s))
            /\ calls' = <<>>

CallJoin ==
    /\ op = "idle"
    /\ \E sep \in JoinSeps, items \in SeqsUpTo(JoinItems, MaxItems) :
        LET r == py_join(sep, items)
        IN  /\ op' = "py_join"
            /\ args' = [sep |-> sep, items |-> items]
            /\ ret' = r.ret
            /\ calls' = [k \in 1..r.pulled |-> [fn |-> "next", item |-> k]]

CallSplit ==
    /\ op = "idle"
    /\ \E s \in SplitSubjects, sep \in SplitSeps, maxsplit \in (-2)..ISIZE_MAX,
          overflow_checks \in BOOLEAN :
        LET r == py_split(s, sep, maxsplit, overflow_checks)
        IN  /\ op' = "py_split"
            /\ args' = [s |-> s, sep |-> sep, maxsplit |-> maxsplit,
                        overflow_checks |-> overflow_checks]
            /\ ret' = r.ret
            /\ calls' = r.calls

\* s.find(needle, start, end): the range comes from adjust_indices.
CallFind ==
    /\ op = "idle"
    /\ \E s \in Subjects, needle \in Needles, start \in OptIdxInts, end \in OptIdxInts :
        LET range == adjust_indices(start, end, Len(s))
            r == py_find(s, needle, range)
        IN  /\ op' = "py_find"
            /\ args' = [s |-> s, needle |-> needle, range |-> range]
            /\ ret' = r.ret
            /\ calls' = r.calls

CallCount ==
    /\ op = "idle"
    /\ \E s \in Subjects, needle \in Needles, start \in OptIdxInts, end \in OptIdxInts :
        LET range == adjust_indices(start, end, Len(s))
            r == py_count(s, needle, range)
        IN  /\ op' = "py_count"
            /\ args' = [s |-> s, needle |-> needle, range |-> range]
            /\ ret' = r.ret
            /\ calls' = r.calls

CallPrepare ==
    /\ op = "idle"
    /\ \E s \in Subjects, affix \in Affixes, start \in OptIdxInts, end \in OptIdxInts :
        LET r == prepare(affix, start, end, s, Len(s))
        IN  /\ op' = "prepare"
            /\ args' = [s |-> s, affix |-> affix, start |-> start, end |-> end,
                        len |-> Len(s)]
            /\ ret' = r.ret
            /\ calls' = r.calls

CallSingleOrTupleAny ==
    /\ op = "idle"
    /\ \E obj \in Objects(AnyLeaves) :
        LET r == single_or_tuple_any(obj)
        IN  /\ op' = "single_or_tuple_any"
            /\ args' = [obj |-> obj]
            /\ ret' = r.ret
            /\ calls' = r.calls

CallStartsEndsWith ==
    /\ op = "idle"
    /\ \E affix \in Objects(AffixLeaves), names \in FuncNames :
        LET r == py_startsendswith(affix, names[1], names[2])
        IN  /\ op' = "py_startsendswith"
            /\ args' = [affix |-> affix, func_name |-> names[1],
                        py_type_name |-> names[2]]
            /\ ret' = r.ret
            /\ calls' = r.calls

\* The helper returns and the caller may invoke another one.
Return ==
    /\ op # "idle"
    /\ op' = "idle"
    /\ args' = <<>>
    /\ ret' = <<>>
    /\ calls' = <<>>

Next ==
    \/ CallAdjustIndices
    \/ CallRemovePrefix
    \/ CallRemovePrefixAgain
    \/ CallBytesSplitlines
    \/ CallCenter
    \/ CallLjust
    \/ CallRjust
    \/ CallJoin
    \/ CallSplit
    \/ CallFind
    \/ CallCount
    \/ CallPrepare
    \/ CallSingleOrTupleAny
    \/ CallStartsEndsWith
    \/ Return

Spec == Init /\ [][Next]_vars

(***************************************************************************)
(* C1.  adjust_indices                                                     *)
(***************************************************************************)
\* What C1 states of one call, but for the value of a non-negative start.
C1_Common ==
    LET L == args.len
        s == args.start
        e == args.end
    IN  /\ ret.end >= 0 /\ ret.end <= L
        /\ ret.start >= 0
        /\ ~IsSome(s) => ret.start = 0
        /\ ~IsSome(e) => ret.end = L
        /\ (IsSome(s) /\ Unwrap(s) < 0) => ret.start = Max(0, L + Unwrap(s))
        /\ (IsSome(e) /\ Unwrap(e) < 0) => ret.end = Max(0, L + Unwrap(e))
        /\ (IsSome(e) /\ Unwrap(e) > L) => ret.end = L

\* C1 as stated: for every length L and every optional start/end, big
\* integers outside the machine range included, adjust_indices returns a
\* range with 0 <= end <= L and start >= 0; a missing start is 0, a missing
\* end is L, a negative bound b becomes max(0, L + b), an end above L becomes
\* L, and a non-negative start is returned unchanged.
C1_Original ==
    op = "adjust_indices" =>
        /\ C1_Common
        /\ (IsSome(args.start) /\ Unwrap(args.start) >= 0)
              => ret.start = Unwrap(args.start)

\* C1 amended: as C1, but a non-negative start is returned saturated to the
\* machine range, min(start, isize::MAX): unchanged when it fits an isize,
\* isize::MAX when it does not.  It is never clamped to L or to end.
C1_Amended ==
    op = "adjust_indices" =>
        /\ C1_Common
        /\ (IsSome(args.start) /\ Unwrap(args.start) >= 0)
              => ret.start = Min(Unwrap(args.start), ISIZE_MAX)

\* A call with a start beyond the machine range and one with a start in the
\* machine range beyond the length and the end.
C1_Witness ==
    /\ op = "adjust_indices"
    /\ IsSome(args.start)
    /\ Unwrap(args.start) > ISIZE_MAX
    /\ ret.start > ret.end
    /\ args.len > 0

(***************************************************************************)
(* C2.  py_removeprefix twice                                              *)
(***************************************************************************)
\* C2 as stated: removeprefix(removeprefix(s, p), p) = removeprefix(s, p)
\* for all s and p: the second call is a no-op.
C2_Original ==
    op = "py_removeprefix_again" => ret = args.s

\* C2 amended: removeprefix removes one copy of the prefix, so the second
\* call is a no-op exactly when p is empty or s does not start with two
\* copies of p; when s starts with p p (p not empty) the second call removes
\* the second copy.
C2_Amended ==
    op = "py_removeprefix_again" =>
        LET p == args.prefix
            s == args.original
            twice == Len(p) > 0 /\ is_prefix(s, p \o p)
        IN  /\ (ret = args.s) <=> ~twice
            /\ twice => ret = SubSeq(s, 2 * Len(p) + 1, Len(s))
            /\ (~twice /\ is_prefix(s, p)) => ret = SubSeq(s, Len(p) + 1, Len(s))
            /\ ~is_prefix(s, p) => ret = s

\* The second call removed a second copy of a non-empty prefix.
C2_Witness ==
    /\ op = "py_removeprefix_again"
    /\ Len(args.prefix) > 0
    /\ ret # args.s
    /\ Len(ret) > 0

(***************************************************************************)
(* C3.  py_bytes_splitlines                                                *)
(***************************************************************************)
RECURSIVE Concat(_)
Concat(ss) == IF ss = <<>> THEN <<>> ELSE Head(ss) \o Concat(Tail(ss))

\* The length of the line terminator a fragment ends in (0: none).
TermLen(f) ==
    IF Len(f) >= 2 /\ f[Len(f) - 1] = CR /\ f[Len(f)] = LF THEN 2
    ELSE IF Len(f) >= 1 /\ f[Len(f)] \in {LF, CR} THEN 1
    ELSE 0

\* frags are the lines of s, terminators kept: they concatenate to s, none is
\* empty, each is terminator-free bytes followed by one terminator, only the
\* last may lack its terminator, and no \r\n is cut between two fragments.
IsLinesOf(frags, s) ==
    /\ Concat(frags) = s
    /\ \A i \in 1..Len(frags) :
        LET f == frags[i]
        IN  /\ Len(f) > 0
            /\ \A j \in 1..(Len(f) - TermLen(f)) : f[j] \notin {LF, CR}
            /\ i < Len(frags) => TermLen(f) > 0
            /\ i < Len(frags) => ~(f[Len(f)] = CR /\ frags[i + 1][1] = LF)

\* C3: py_bytes_splitlines returns the fragments of the reference line
\* splitter.  With keepends the fragments are the lines of the input, each
\* with its full terminator (\n, bare \r, or \r\n as one terminator), and
\* concatenate to the input; without keepends they are the same fragments
\* with the terminators removed; bytes after the last terminator form one
\* last fragment, input ending in a terminator yields no trailing empty
\* fragment, and empty input yields no fragment.
C3_Splitlines ==
    op = "py_bytes_splitlines" =>
        LET s == args.s
            kept == py_bytes_splitlines(s, TRUE)
        IN  /\ args.keepends => IsLinesOf(ret, s)
            /\ ~args.keepends =>
                /\ IsLinesOf(kept, s)
                /\ Len(ret) = Len(kept)
                /\ \A i \in 1..Len(kept) :
                    ret[i] = SubSeq(kept[i], 1, Len(kept[i]) - TermLen(kept[i]))
            /\ s = <<>> => ret = <<>>
            /\ (s # <<>> /\ TermLen(s) = 0) =>
                /\ Len(ret) > 0
                /\ ret[Len(ret)] # <<>>
                /\ TermLen(ret[Len(ret)]) = 0

\* \r\n inside the input, bytes after the last terminator, terminators dropped.
C3_Witness ==
    /\ op = "py_bytes_splitlines"
    /\ ~args.keepends
    /\ args.s = <<97, CR, LF, 97>>
    /\ ret = <<(<<97>>), (<<97>>)>>


(***************************************************************************)
(* C4.  py_center, py_ljust, py_rjust                                      *)
(***************************************************************************)
\* C4: for width >= len, with marg = width - len, py_center pads with
\* left = floor(marg/2) + 1 when marg and width are both odd and
\* left = floor(marg/2) otherwise, and right = marg - left; the result is
\* left fill elements, the content, right fill elements.  py_ljust puts all
\* of marg on the right and py_rjust all of it on the left.
C4_Padding ==
    op \in {"py_center", "py_ljust", "py_rjust"} =>
        LET marg == args.width - args.len
            odd == IF marg % 2 = 1 /\ args.width % 2 = 1 THEN 1 ELSE 0
            left == IF op = "py_center" THEN marg \div 2 + odd
                    ELSE IF op = "py_ljust" THEN 0 ELSE marg
            right == marg - left
        IN  /\ left + right = args.width - args.len
            /\ Len(ret) = args.width
            /\ \A i \in 1..left : ret[i] = args.fillchar
            /\ SubSeq(ret, left + 1, left + args.len) = args.s
            /\ \A i \in (left + args.len + 1)..Len(ret) : ret[i] = args.fillchar

\* center(len = 3, width = 6): an odd margin and an even width, left = 1 and
\* right = 2.
C4_Witness ==
    /\ op = "py_center"
    /\ args.len = 3
    /\ args.width = 6
    /\ ret = (<<32>> \o args.s) \o <<32, 32>>

(***************************************************************************)
(* C5.  single_or_tuple_any                                                *)
(***************************************************************************)
\* The values of an object that are no tuples, left to right through nested
\* tuples.
RECURSIVE Flatten(_)
Flatten(obj) ==
    IF obj.kind # "tuple"
    THEN <<obj>>
    ELSE Concat([i \in 1..Len(obj.items) |-> Flatten(obj.items[i])])

\* A value that ends the examination: one the predicate is true of or fails
\* on, or one that is not of the expected type.
Decides(o) == o.kind # "T" \/ o.tag # 0

\* The index in vals of the first value that ends the examination, 0 if none.
FirstDeciding(vals) ==
    LET d == {i \in 1..Len(vals) : Decides(vals[i])}
    IN  IF d = {} THEN 0 ELSE CHOOSE i \in d : \A j \in d : i <= j

OnlyT(obj) == \A i \in 1..Len(Flatten(obj)) : Flatten(obj)[i].kind = "T"

IsTypeErrorNaming(r, a, o) ==
    /\ ~r.ok
    /\ r.err = <<"TypeError",
                 <<a.func_name, " first arg must be ", a.py_type_name,
                   " or a tuple of ", a.py_type_name, ", not ", o.kind>> >>

C7_Join ==
    op = "py_join" =>
        LET items == args.items
            n == Len(items)
            failing == {k \in 1..n : ~items[k].ok}
            pieces == [i \in 1..(2 * n - 1) |->
                          IF i % 2 = 1 THEN items[(i + 1) \div 2].val ELSE args.sep]
            pulled == [i \in 1..Len(calls) |-> calls[i].item]
        IN  IF failing = {}
            THEN /\ ret.ok
                 /\ ret.val = Concat(pieces)
                 /\ n = 0 => ret.val = <<>>
                 /\ pulled = [i \in 1..n |-> i]
            ELSE LET k == CHOOSE j \in failing : \A h \in failing : j <= h
                 IN  /\ ~ret.ok
                     /\ ret.err = items[k].err
                     /\ ret.val = <<>>
                     /\ pulled = [i \in 1..k |-> i]

\* The third item fails after two were joined, and a later item never is pulled.
C7_Witness ==
    /\ op = "py_join"
    /\ Len(args.items) = 3
    /\ args.items[1].ok /\ args.items[1].val # <<>>
    /\ args.items[2].ok
    /\ ~args.items[3].ok
    /\ ~ret.ok
    /\ Len(calls) = 3


(***************************************************************************)
(* C8.  py_split                                                           *)
(***************************************************************************)
\* What C8 states of one call of py_split.
C8_Claim ==
    LET sep == args.sep
        m == args.maxsplit
    IN  /\ (IsSome(sep) /\ Unwrap(sep) = <<>>) =>
            /\ ~ret.ok /\ ret.err[1] = "ValueError"
            /\ calls = <<>>
        /\ (IsSome(sep) /\ Unwrap(sep) # <<>> /\ m < 0) =>
            /\ ret.ok
            /\ calls = <<Call("split", 0)>>
        /\ (IsSome(sep) /\ Unwrap(sep) # <<>> /\ m >= 0) =>
            /\ ret.ok
            /\ calls = <<Call("splitn", m + 1)>>
            /\ Len(ret.val) <= m + 1
        /\ ~IsSome(sep) =>
            /\ ret.ok
            /\ calls = <<Call("splitw", m)>>

\* C8: a supplied empty separator yields a value error and no splitter is
\* invoked (an empty subject with a non-empty separator does not raise); a
\* non-empty separator with maxsplit < 0 invokes only the unlimited
\* splitter; a non-empty separator with any maxsplit >= 0, up to the largest
\* machine integer, invokes only the limited splitter with cap maxsplit + 1,
\* so at most maxsplit + 1 fragments result; no separator invokes only the
\* whitespace splitter with maxsplit unchanged.
C8_Dispatch ==
    op = "py_split" => C8_Claim

\* The same holds of every call in a build whose arithmetic wraps, and of
\* every call with maxsplit < isize::MAX in any build.
C8_WithoutOverflow ==
    (op = "py_split" /\ (~args.overflow_checks \/ args.maxsplit < ISIZE_MAX)) => C8_Claim

\* split(",", isize::MAX) in a build with overflow checks.
C8_Overflow ==
    /\ op = "py_split"
    /\ args.overflow_checks
    /\ args.maxsplit = ISIZE_MAX
    /\ args.sep = Some(<<44>>)
    /\ ~ret.ok
    /\ ret.err[1] = "panic"

(***************************************************************************)
(* C9.  py_find and py_count                                               *)
(***************************************************************************)
\* C9: on an abnormal range py_find returns not-found and py_count 0 without
\* taking a sub-view or invoking the search; on a normal range they take the
\* sub-view of that range and search it alone, py_count returns the search's
\* count and py_find range.start plus the index found in the sub-view
\* (not-found stays not-found), so a found index is >= range.start.
C9_FindCount ==
    op \in {"py_find", "py_count"} =>
        LET r == args.range
            sub == SubSeq(args.s, r.start + 1, r.end)
            search == IF op = "py_find" THEN "find" ELSE "count"
        IN  IF r.start > r.end
            THEN /\ calls = <<>>
                 /\ ret = IF op = "py_find" THEN None ELSE Some(0)
            ELSE /\ calls = <<SubCall("get_chars", r.start, r.end),
                              SubCall(search, sub, args.needle)>>
                 /\ op = "py_count" => ret = Some(count(sub, args.needle))
                 /\ op = "py_find" =>
                      LET index == find(sub, args.needle)
                      IN  /\ ~IsSome(index) => ret = None
                          /\ IsSome(index) =>
                                /\ ret = Some(r.start + Unwrap(index))
                                /\ Unwrap(ret) >= r.start
                                /\ SubSeq(args.s, Unwrap(ret) + 1,
                                          Unwrap(ret) + Len(args.needle)) = args.needle

\* A needle found in a sub-view that starts at 1, past an occurrence at 0.
C9_Witness ==
    /\ op = "py_find"
    /\ args.s = <<97, 98, 97, 98>>
    /\ args.range = Range(1, 4)
    /\ args.needle = <<97, 98>>
    /\ ret = Some(2)

(***************************************************************************)
(* C10.  is_normal as the bounds check                                     *)
(***************************************************************************)
\* C10: whenever the range adjust_indices returns is normal, start <= end <=
\* L, so the sub-view prepare, py_find and py_count take is inside the
\* sequence; when it is abnormal prepare returns None without calling the
\* sub-view function; when neither start nor end is supplied prepare returns
\* the whole sequence without computing a range.
C10_BoundsCheck ==
    /\ op = "adjust_indices" =>
          (is_normal(ret) => ret.start <= ret.end /\ ret.end <= args.len)
    /\ op \in {"py_find", "py_count"} =>
          /\ ret # Panic
          /\ is_normal(args.range) => args.range.end <= Len(args.s)
    /\ op = "prepare" =>
          IF ~IsSome(args.start) /\ ~IsSome(args.end)
          THEN /\ calls = <<>>
               /\ ret = Some([affix |-> args.affix, substr |-> args.s])
          ELSE LET r == adjust_indices(args.start, args.end, args.len)
               IN  /\ calls[1] = SubCall("adjust_indices", r.start, r.end)
                   /\ is_normal(r) =>
                         /\ r.start <= r.end /\ r.end <= args.len
                         /\ calls = <<calls[1], SubCall("substr", r.start, r.end)>>
                         /\ ret = Some([affix |-> args.affix,
                                        substr |-> SubSeq(args.s, r.start + 1, r.end)])
                         /\ Unwrap(ret).substr # Panic
                   /\ ~is_normal(r) =>
                         /\ ret = None
                         /\ calls = <<calls[1]>>

\* prepare given a start beyond the machine range: an abnormal range, None.
C10_Witness ==
    /\ op = "prepare"
    /\ args.start = Some(ISIZE_MAX + BigExtra)
    /\ args.end = Some(-1)
    /\ args.len = MaxLen
    /\ ret = None

====
